---- MODULE Spec2Model ----
(***************************************************************************)
(* Model of the job dispatch core of syft's ZMQProducer                     *)
(* (packages/syft/src/syft/service/queue/zmq_producer.py): the router       *)
(* thread (_run), the producer thread (read_items), the admission filter    *)
(* and the three stores they talk to.                                       *)
(***************************************************************************)
EXTENDS Integers, Sequences, FiniteSets, TLC

(***************************************************************************)
(* Bounds of the model.                                                     *)
(***************************************************************************)
\* number of queue items external clients write to the Queue Store: in
\* SpecQueue, in Spec and in SpecRouter
MaxItems == 2
MaxItemsFaulty == 1
MaxItemsRouter == 1
\* ... and in SpecFifo and SpecLive
MaxItemsFifo == 2
MaxItemsLive == 2
\* number of Queue Store updates that may return an error
MaxUpdateErrs == 1
\* number of times the broker is closed and started again
MaxRestarts == 1
\* depth at which the interpreter raises RecursionError
\* (sys.getrecursionlimit(), scaled down)
RecursionLimit == 8
\* number of queue items in SpecAdmit
MaxItemsAdmit == 1

Items == 1..MaxItems

\* socket addresses of worker processes, pool names, registry ids
Addrs == {"a1", "a2"}
Names == {"A", "B"}
Wids == {"w1", "w2"}
ObjIds == {"x", "p", "m", "n", "k"}
None == "none"

\* ZMQHeader / ZMQCommand values (byte constants of zmq_common)
W_WORKER == "W_WORKER"
W_READY == "W_READY"
W_REQUEST == "W_REQUEST"
W_HEARTBEAT == "W_HEARTBEAT"
W_DISCONNECT == "W_DISCONNECT"

\* ConsumerState / Status values
IDLE == "IDLE"
DETACHED == "DETACHED"
CREATED == "CREATED"
PROCESSING == "PROCESSING"
ERRORED == "ERRORED"
COMPLETED == "COMPLETED"

VARIABLES
    workers,    \* self.workers: identity -> Worker (service, syft_worker_id, expiry)
    services,   \* self.services: name -> Service (requests, waiting)
    svcOrder,   \* the insertion order of the keys of self.services
    waiting,    \* self.waiting: list of idle workers
    reg,        \* Worker Registry (worker_stash): id -> record
    routerPc,   \* position of the router thread (_run)
    ev,         \* what the router thread did last
    out,        \* what the last router step sent / wrote, in order
    sentLog,    \* the payload of every W_REQUEST the broker has sent, in order
    qstore,     \* Queue Store: item id -> QueueItem
    objs,       \* Object Store: object id -> ActionObject
    prodPc,     \* position of the producer thread (read_items)
    snap,       \* the items of this tick's snapshot still to be looped over
    lastProc,   \* the last item of this tick's items_processing (0: none)
    item,       \* the local variable `item` of read_items (0: unbound)
    updErrs,    \* Queue Store updates that have returned an error
    appendLog,  \* every message appended to a request buffer, in order
    qlog,       \* the broker's last write to the Queue Store
    stop,       \* self._stop is set
    socket,     \* self.socket: "open", "error" (a send raises ZMQError), "closed"
    closePc,    \* position of the thread that calls close()
    gen         \* number of times the broker was started again

lifeVars == <<stop, socket, closePc, gen>>
routerVars == <<workers, services, svcOrder, waiting, reg, routerPc, ev, out, sentLog,
                stop, socket, closePc, gen>>
producerVars == <<qstore, objs, prodPc, snap, lastProc, item, updErrs, appendLog, qlog>>
vars == <<workers, services, svcOrder, waiting, reg, routerPc, ev, out, sentLog,
          qstore, objs, prodPc, snap, lastProc, item, updErrs, appendLog, qlog,
          stop, socket, closePc, gen>>

(***************************************************************************)
(* Sequence helpers.                                                        *)
(***************************************************************************)
InSeq(x, s) == \E i \in 1..Len(s) : s[i] = x

\* list.remove(x): removes the first occurrence
RemoveFirst(s, x) ==
    IF ~InSeq(x, s) THEN s
    ELSE LET i == CHOOSE j \in 1..Len(s) : s[j] = x /\ \A k \in 1..(j-1) : s[k] # x
         IN SubSeq(s, 1, i-1) \o SubSeq(s, i+1, Len(s))

Restrict(f, S) == [x \in S |-> f[x]]

(***************************************************************************)
(* The broker state the router thread works on, as one record, so that the  *)
(* methods of ZMQProducer compose as the code composes them.  exc is set    *)
(* when a Python exception is propagating.                                  *)
(***************************************************************************)
Broker ==
    [workers |-> workers, services |-> services, svcOrder |-> svcOrder,
     waiting |-> waiting,
     reg |-> reg, out |-> <<>>, sentLog |-> sentLog, socket |-> socket,
     exc |-> FALSE]

\* send_to_worker putting a payload on the socket that was serialized again,
\* after the status write
send_to_worker_restamped(b, a, command, msg) ==
    LET m2 == IF command = W_REQUEST
              THEN <<[msg[1] EXCEPT ![2] = PROCESSING]>>
              ELSE msg
    IN [b EXCEPT !.out = Append(@, <<"send", a, command, m2>>),
                 !.sentLog = IF command = W_REQUEST THEN Append(@, m2[1]) ELSE @]

\* send_to_worker without its except clause: the ZMQError of a send propagates
send_to_worker_raises(b, a, command, msg) ==
    IF b.socket = "closed" THEN b
    ELSE IF b.socket = "error"
    THEN [b EXCEPT !.out = Append(@, <<"senderr", a, command, msg>>),
                   !.exc = TRUE]
    ELSE [b EXCEPT !.out = Append(@, <<"send", a, command, msg>>),
                   !.sentLog = IF command = W_REQUEST THEN Append(@, msg[1]) ELSE @]

\* socket.send_multipart([address, b"", W_WORKER, command, *msg]); nothing is
\* sent on a closed socket, and a ZMQError of the send is logged ("senderr")
send_to_worker(b, a, command, msg) ==
    IF b.socket = "closed" THEN b
    ELSE IF b.socket = "error"
    THEN [b EXCEPT !.out = Append(@, <<"senderr", a, command, msg>>)]
    ELSE [b EXCEPT !.out = Append(@, <<"send", a, command, msg>>),
                   !.sentLog = IF command = W_REQUEST THEN Append(@, msg[1]) ELSE @]

\* update_consumer_state_for_worker writing IDLE only: a deleted worker's
\* record is left as it is
update_consumer_state_for_worker_idle_only(b, wid, state, lf) ==
    IF wid = None \/ wid \in lf \/ state # IDLE THEN b
    ELSE IF ~b.reg[wid].present THEN b
    ELSE [b EXCEPT !.out = Append(@, <<"state", wid, state>>)]

\* worker_stash.get_by_uid / update_consumer_state; lf: the ids whose registry
\* calls fail during this step
update_consumer_state_for_worker(b, wid, state, lf) ==
    IF wid = None \/ wid \in lf THEN b
    ELSE IF ~b.reg[wid].present THEN b
    ELSE [b EXCEPT !.out = Append(@, <<"state", wid, state>>)]

\* delete_worker without lines 542-543: the worker stays in its Service's list
delete_worker_keeps_service_waiting(b, a, w, disconnect, lf) ==
    LET b1 == IF disconnect THEN send_to_worker(b, a, W_DISCONNECT, <<>>) ELSE b
        b3 == [b1 EXCEPT !.waiting = RemoveFirst(@, a),
                         !.workers = Restrict(@, DOMAIN @ \ {a})]
    IN IF w.wid # None
       THEN update_consumer_state_for_worker(b3, w.wid, DETACHED, lf)
       ELSE b3

\* w is the Worker object at address a
delete_worker(b, a, w, disconnect, lf) ==
    LET b1 == IF disconnect THEN send_to_worker(b, a, W_DISCONNECT, <<>>) ELSE b
        b2 == IF w.service # None /\ InSeq(a, b1.services[w.service].waiting)
              THEN [b1 EXCEPT !.services[w.service].waiting = RemoveFirst(@, a)]
              ELSE b1
        b3 == [b2 EXCEPT !.waiting = RemoveFirst(@, a),
                         !.workers = Restrict(@, DOMAIN @ \ {a})]
    IN IF w.wid # None
       THEN update_consumer_state_for_worker(b3, w.wid, DETACHED, lf)
       ELSE b3

\* worker._syft_worker(worker_stash, credentials): "err", "none" or the record
syft_worker(b, w, lf) ==
    IF w.wid = None \/ w.wid \in lf THEN "err"
    ELSE IF ~b.reg[w.wid].present THEN "none"
    ELSE "ok"

\* WorkerService._delete(context, syft_worker)
worker_service_delete(b, wid) ==
    [b EXCEPT !.reg[wid].present = FALSE,
              !.out = Append(@, <<"delete", wid>>)]

\* purge_workers: `for worker in self.waiting` walks the list by position
\* while delete_worker removes from that same list
RECURSIVE purge_from(_, _, _)
purge_from(b, i, lf) ==
    IF i > Len(b.waiting) THEN b
    ELSE LET a == b.waiting[i]
             w == b.workers[a]
             res == syft_worker(b, w, lf)
         IN IF res # "ok" THEN purge_from(b, i + 1, lf)
            ELSE IF w.expired \/ b.reg[w.wid].tbd
            THEN purge_from(
                    worker_service_delete(
                        delete_worker(b, a, w, b.reg[w.wid].tbd, lf), w.wid),
                    i + 1, lf)
            ELSE purge_from(b, i + 1, lf)

purge_workers(b, lf) == purge_from(b, 1, lf)

\* dispatch leaving the worker in the waiting lists
RECURSIVE dispatch_loop_keeps_worker(_, _)
dispatch_loop_keeps_worker(b, s) ==
    IF b.services[s].waiting = <<>> \/ b.services[s].requests = <<>> THEN b
    ELSE LET msg == Head(b.services[s].requests)
             a == Head(b.services[s].waiting)
             b1 == [b EXCEPT !.services[s].requests = Tail(@)]
         IN dispatch_loop_keeps_worker(send_to_worker(b1, a, W_REQUEST, <<msg>>), s)

\* dispatch taking the worker that has waited least: waiting.pop() for
\* waiting.pop(0)
RECURSIVE dispatch_loop_last_worker(_, _)
dispatch_loop_last_worker(b, s) ==
    IF b.services[s].waiting = <<>> \/ b.services[s].requests = <<>> THEN b
    ELSE LET msg == Head(b.services[s].requests)
             ws == b.services[s].waiting
             a == ws[Len(ws)]
             b1 == [b EXCEPT !.services[s].requests = Tail(@),
                             !.services[s].waiting = SubSeq(ws, 1, Len(ws) - 1)]
         IN IF ~InSeq(a, b1.waiting)
            THEN [b1 EXCEPT !.exc = TRUE]
            ELSE dispatch_loop_last_worker(
                    send_to_worker([b1 EXCEPT !.waiting = RemoveFirst(@, a)],
                                   a, W_REQUEST, <<msg>>), s)

\* dispatch popping the newest request: requests.pop() for requests.pop(0)
RECURSIVE dispatch_loop_lifo(_, _)
dispatch_loop_lifo(b, s) ==
    IF b.services[s].waiting = <<>> \/ b.services[s].requests = <<>> THEN b
    ELSE LET reqs == b.services[s].requests
             msg == reqs[Len(reqs)]
             a == Head(b.services[s].waiting)
             b1 == [b EXCEPT !.services[s].requests = SubSeq(reqs, 1, Len(reqs) - 1),
                             !.services[s].waiting = Tail(@)]
         IN IF ~InSeq(a, b1.waiting)
            THEN [b1 EXCEPT !.exc = TRUE]
            ELSE dispatch_loop_lifo(
                    send_to_worker([b1 EXCEPT !.waiting = RemoveFirst(@, a)],
                                   a, W_REQUEST, <<msg>>), s)

\* the while loop of dispatch
RECURSIVE dispatch_loop(_, _)
dispatch_loop(b, s) ==
    IF b.services[s].waiting = <<>> \/ b.services[s].requests = <<>> THEN b
    ELSE LET msg == Head(b.services[s].requests)
             a == Head(b.services[s].waiting)
             b1 == [b EXCEPT !.services[s].requests = Tail(@),
                             !.services[s].waiting = Tail(@)]
         IN IF ~InSeq(a, b1.waiting)
            THEN [b1 EXCEPT !.exc = TRUE]       \* list.remove: ValueError
            ELSE dispatch_loop(
                    send_to_worker([b1 EXCEPT !.waiting = RemoveFirst(@, a)],
                                   a, W_REQUEST, <<msg>>), s)

\* dispatch without its while loop
dispatch_purge_only(b, s, lf) ==
    LET b1 == purge_workers(b, lf)
    IN IF s = None THEN [b1 EXCEPT !.exc = TRUE] ELSE b1

\* dispatch(service, None); service None raises AttributeError after the purge
dispatch(b, s, lf) ==
    LET b1 == purge_workers(b, lf)
    IN IF s = None THEN [b1 EXCEPT !.exc = TRUE]
       ELSE dispatch_loop(b1, s)

\* worker_waiting without lines 393-394: the worker is queued to the broker's
\* list only
worker_waiting_global_only(b, a, lf) ==
    LET w == b.workers[a]
        b1 == IF InSeq(a, b.waiting) THEN b
              ELSE [b EXCEPT !.waiting = Append(@, a)]
        b3 == [b1 EXCEPT !.workers[a].expired = FALSE]
        b4 == update_consumer_state_for_worker(b3, w.wid, IDLE, lf)
    IN dispatch(b4, w.service, lf)

worker_waiting(b, a, lf) ==
    LET w == b.workers[a]
        b1 == IF InSeq(a, b.waiting) THEN b
              ELSE [b EXCEPT !.waiting = Append(@, a)]
        b2 == IF w.service # None /\ ~InSeq(a, b1.services[w.service].waiting)
              THEN [b1 EXCEPT !.services[w.service].waiting = Append(@, a)]
              ELSE b1
        b3 == [b2 EXCEPT !.workers[a].expired = FALSE]
        b4 == update_consumer_state_for_worker(b3, w.wid, IDLE, lf)
    IN dispatch(b4, w.service, lf)

NewWorker == [service |-> None, wid |-> None, expired |-> FALSE]

require_worker(b, a) ==
    IF a \in DOMAIN b.workers THEN b
    ELSE [b EXCEPT !.workers = [x \in DOMAIN @ \cup {a} |->
                                   IF x = a THEN NewWorker ELSE @[x]]]

NewService == [requests |-> <<>>, waiting |-> <<>>]

\* process_worker re-attaching a known worker on W_READY instead of
\* disconnecting it
process_worker_reattach(b, a, command, data, lf) ==
    LET worker_ready == a \in DOMAIN b.workers
        b1 == require_worker(b, a)
        w == b1.workers[a]
    IN IF command = W_READY
       THEN IF Len(data) < 2 THEN [b1 EXCEPT !.exc = TRUE]
            ELSE LET service_name == data[1]
                     syft_worker_id == data[2]
                     b2 == IF service_name \in DOMAIN b1.services THEN b1
                           ELSE [b1 EXCEPT !.services =
                                   [n \in DOMAIN @ \cup {service_name} |->
                                      IF n = service_name THEN NewService
                                      ELSE @[n]],
                                   !.svcOrder = Append(@, service_name)]
                     b3 == [b2 EXCEPT !.workers[a].service = service_name,
                                      !.workers[a].wid = syft_worker_id]
                 IN worker_waiting(b3, a, lf)
       ELSE IF command = W_HEARTBEAT
       THEN IF worker_ready THEN worker_waiting(b1, a, lf)
            ELSE delete_worker(b1, a, w, TRUE, lf)
       ELSE IF command = W_DISCONNECT
       THEN delete_worker(b1, a, w, FALSE, lf)
       ELSE b1

process_worker(b, a, command, data, lf) ==
    LET worker_ready == a \in DOMAIN b.workers
        b1 == require_worker(b, a)
        w == b1.workers[a]
    IN IF command = W_READY
       THEN IF Len(data) < 2 THEN [b1 EXCEPT !.exc = TRUE]  \* data.pop(0): IndexError
            ELSE LET service_name == data[1]
                     syft_worker_id == data[2]
                 IN IF worker_ready THEN delete_worker(b1, a, w, TRUE, lf)
                    ELSE LET b2 == IF service_name \in DOMAIN b1.services THEN b1
                                   ELSE [b1 EXCEPT !.services =
                                           [n \in DOMAIN @ \cup {service_name} |->
                                              IF n = service_name THEN NewService
                                              ELSE @[n]],
                                           !.svcOrder = Append(@, service_name)]
                             b3 == [b2 EXCEPT !.workers[a].service = service_name,
                                              !.workers[a].wid = syft_worker_id]
                         IN worker_waiting(b3, a, lf)
       ELSE IF command = W_HEARTBEAT
       THEN IF worker_ready THEN worker_waiting(b1, a, lf)
            ELSE delete_worker(b1, a, w, TRUE, lf)
       ELSE IF command = W_DISCONNECT
       THEN delete_worker(b1, a, w, FALSE, lf)
       ELSE b1

RECURSIVE heartbeats_from(_, _)
heartbeats_from(b, i) ==
    IF i > Len(b.waiting) THEN b
    ELSE heartbeats_from(send_to_worker(b, b.waiting[i], W_HEARTBEAT, <<>>), i + 1)

\* send_heartbeats; hb: heartbeat_t.has_expired()
send_heartbeats(b, hb) == IF hb THEN heartbeats_from(b, 1) ELSE b



(***************************************************************************)
(* The admission filter.  A Python value is a tagged tuple:                 *)
(*   <<"prim">>, <<"none">>, <<"err">> (a SyftError),                       *)
(*   <<"uid", id>>, <<"ao", id>> (an ActionObject, its fields read from the *)
(*   Object Store), <<"list", elems>>, <<"set", elems>>,                    *)
(*   <<"dict", pairs>> with pairs a sequence of <<key, value>>.             *)
(* gf is the set of object ids for which action_service.get returns Err.    *)
(***************************************************************************)
IsCollection(v) == v[1] \in {"list", "dict", "set"}

\* contains_unresolved_action_objects(arg, recursion) at depth `recursion`.
\* The method passes its depth on and never compares it: the recursion ends
\* at the leaves of the value or, on a graph that leads back into itself, in
\* the interpreter's RecursionError, RecursionLimit calls deep.  The results:
\*   "F", "T"  the call returned False / True,
\*   "R"       the RecursionError propagates out of the call,
\*   "C"       the except clause of line 153 caught it and returned True.
RECURSIVE unresolved_at(_, _, _, _)
RECURSIVE unresolved_loop(_, _, _, _, _)
\* for elem in arg: value = self.contains_unresolved_action_objects(elem, ...)
unresolved_loop(os, elems, k, gf, recursion) ==
    IF k > Len(elems) THEN "F"
    ELSE LET value == unresolved_at(os, elems[k], gf, recursion + 1)
         IN IF value = "F" THEN unresolved_loop(os, elems, k + 1, gf, recursion)
            ELSE IF value = "R" THEN "C"
            ELSE value

unresolved_at(os, arg, gf, recursion) ==
    IF recursion > RecursionLimit THEN "R"
    ELSE IF arg[1] = "uid"
    THEN unresolved_at(
            os, IF arg[2] \in gf THEN <<"none">> ELSE <<"ao", arg[2]>>, gf,
            recursion + 1)
    ELSE IF arg[1] = "ao" /\ ~os[arg[2]].resolved
    THEN "T"      \* the second fetch fails or is unresolved as well
    ELSE LET d == IF arg[1] = "ao" THEN os[arg[2]].data ELSE arg
         IN IF d[1] = "list"
            THEN unresolved_loop(os, d[2], 1, gf, recursion)
            ELSE IF d[1] = "dict"
            THEN unresolved_loop(os, [k \in 1..Len(d[2]) |-> d[2][k][2]], 1,
                                 gf, recursion)
            ELSE "F"

\* the call of read_items (lines 258-260): arg is action.args or
\* action.kwargs, a list or a dict, so a RecursionError is always caught
contains_unresolved_action_objects(os, arg, gf) ==
    unresolved_at(os, arg, gf, 0) # "F"

\* the values of a collection, in the order unwrap_collection lists them
CollectionValues(col) ==
    IF col[1] = "dict"
    THEN [k \in 1..Len(col[2]) |-> col[2][k][2]] \o [k \in 1..Len(col[2]) |-> col[2][k][1]]
    ELSE col[2]

RECURSIVE unwrap_collection(_)
RECURSIVE unwrap_values(_, _)
unwrap_values(values, k) ==
    IF k > Len(values) THEN <<>>
    ELSE (IF IsCollection(values[k]) THEN unwrap_collection(values[k])
          ELSE <<values[k]>>) \o unwrap_values(values, k + 1)
unwrap_collection(col) == unwrap_values(CollectionValues(col), 1)

contains_nested_actionobjects(data) ==
    IF IsCollection(data)
    THEN LET values == unwrap_collection(data)
         IN \E k \in 1..Len(values) : values[k][1] = "ao"
    ELSE data[1] = "ao"

\* <<"raise">> stands for the ValueError propagating out of the call
RECURSIVE unwrap_nested_actionobjects(_, _, _)
unwrap_nested_actionobjects(os, data, gf) ==
    IF data[1] = "list"
    THEN <<"list", [k \in 1..Len(data[2]) |->
                      unwrap_nested_actionobjects(os, data[2][k], gf)]>>
    ELSE IF data[1] = "dict"
    THEN <<"dict", [k \in 1..Len(data[2]) |->
                      <<data[2][k][1],
                        unwrap_nested_actionobjects(os, data[2][k][2], gf)>>]>>
    ELSE IF data[1] = "ao"
    THEN IF data[2] \in gf THEN <<"err">>
         ELSE LET nested_res == os[data[2]].data
              IN IF nested_res[1] = "ao" THEN <<"raise">> ELSE nested_res
    ELSE data

RECURSIVE Raised(_)
Raised(v) ==
    IF v[1] = "raise" THEN TRUE
    ELSE IF v[1] = "list" THEN \E k \in 1..Len(v[2]) : Raised(v[2][k])
    ELSE IF v[1] = "dict" THEN \E k \in 1..Len(v[2]) : Raised(v[2][k][2])
    ELSE FALSE

\* the state of the Object Store after the call, and whether it raised
preprocess_action_arg(os, arg, gf) ==
    IF arg \in gf THEN [os |-> os, exc |-> FALSE]
    ELSE LET data == os[arg].data
         IN IF contains_nested_actionobjects(data)
            THEN LET new_data == unwrap_nested_actionobjects(os, data, gf)
                 IN IF Raised(new_data) THEN [os |-> os, exc |-> TRUE]
                    ELSE [os |-> [os EXCEPT ![arg] =
                                     [resolved |-> TRUE, data |-> new_data]],
                          exc |-> FALSE]
            ELSE [os |-> os, exc |-> FALSE]

\* for arg in action.args: ...; for _, arg in action.kwargs.items(): ...
RECURSIVE preprocess_all(_, _, _, _)
preprocess_all(os, ids, k, gf) ==
    IF k > Len(ids) THEN [os |-> os, exc |-> FALSE]
    ELSE LET r == preprocess_action_arg(os, ids[k], gf)
         IN IF r.exc THEN r ELSE preprocess_all(r.os, ids, k + 1, gf)

ArgsValue(ids) == <<"list", [k \in 1..Len(ids) |-> <<"uid", ids[k]>>]>>
KwargsValue(ids) == <<"dict", [k \in 1..Len(ids) |-> <<<<"prim">>, <<"uid", ids[k]>>>>]>>

\* serialize(item, to_bytes=True) of the snapshot item (status CREATED)
serialize(i, it) == <<i, CREATED, it.pool, it.args, it.kwargs>>
ItemOf(msg) == msg[1]
PoolOf(msg) == msg[3]


(***************************************************************************)
(* The router thread, _run.  One loop iteration is two steps, so that the   *)
(* producer thread can append between the dispatch of the services and the  *)
(* handling of a received message: "dispatch" (the for loop over            *)
(* self.services) and "poll" (poll, recv, process_worker, send_heartbeats,  *)
(* purge_workers).                                                          *)
(***************************************************************************)
RECURSIVE dispatch_all(_, _, _)
dispatch_all(b, i, lf) ==
    IF i > Len(b.svcOrder) \/ b.exc THEN b
    ELSE dispatch_all(dispatch(b, b.svcOrder[i], lf), i + 1, lf)

\* each worker process has one registry id
WidOf(a) == IF a = "a1" THEN "w1" ELSE "w2"

\* the well-formed messages of a worker: [address, b"", header, command, *data]
WorkerFrames(a) ==
    { <<a, "", W_WORKER, W_READY, n, WidOf(a)>> : n \in Names }
    \cup { <<a, "", W_WORKER, W_HEARTBEAT>>, <<a, "", W_WORKER, W_DISCONNECT>> }

\* messages that break the protocol
BadFrames(a) ==
    { <<a, "">>, <<a, "", W_WORKER>>, <<a, "", "MDPC", W_READY>>,
      <<a, "", W_WORKER, W_REQUEST>>, <<a, "", W_WORKER, W_READY>>,
      <<a, "", W_WORKER, W_READY, "A">> }

Commit(b, pc, e) ==
    /\ workers' = b.workers
    /\ services' = b.services
    /\ svcOrder' = b.svcOrder
    /\ waiting' = b.waiting
    /\ reg' = b.reg
    /\ out' = b.out
    /\ sentLog' = b.sentLog
    /\ routerPc' = IF b.exc THEN "dead" ELSE pc
    /\ ev' = e
    /\ UNCHANGED lifeVars
    /\ UNCHANGED producerVars

\* for service in self.services.values(): self.dispatch(service, None)
RouterDispatch(lf) ==
    /\ routerPc = "dispatch"
    /\ ~stop
    /\ Commit(dispatch_all(Broker, 1, lf), "poll", <<"dispatch">>)

\* poll timed out: no message
RouterIdle(hb, lf) ==
    /\ routerPc = "poll"
    /\ Commit(purge_workers(send_heartbeats(Broker, hb), lf), "dispatch", <<"idle">>)

\* a message arrived
RouterRecv(msg, hb, lf) ==
    /\ routerPc = "poll"
    /\ socket # "closed"
    /\ IF Len(msg) < 3
       THEN Commit(Broker, "dispatch", <<"invalid">>)      \* continue
       ELSE IF Len(msg) < 4
       THEN Commit([Broker EXCEPT !.exc = TRUE], "dispatch", <<"invalid">>)
       ELSE LET address == msg[1]
                header == msg[3]
                command == msg[4]
                data == SubSeq(msg, 5, Len(msg))
                e == <<"recv", address, header, command, address \in DOMAIN workers>>
                b1 == IF header = W_WORKER
                      THEN process_worker(Broker, address, command, data, lf)
                      ELSE Broker
            IN IF b1.exc THEN Commit(b1, "dispatch", e)
               ELSE Commit(purge_workers(send_heartbeats(b1, hb), lf), "dispatch", e)

(***************************************************************************)
(* The environment of the router: time and the Worker Registry.             *)
(***************************************************************************)
\* time passes a worker's expiry deadline
Expire(a) ==
    /\ a \in DOMAIN workers
    /\ ~workers[a].expired
    /\ workers' = [workers EXCEPT ![a].expired = TRUE]
    /\ UNCHANGED <<services, svcOrder, waiting, reg, routerPc, ev, out, sentLog>>
    /\ UNCHANGED lifeVars
    /\ UNCHANGED producerVars

\* another service flags a registry record to_be_deleted
FlagToBeDeleted(w) ==
    /\ reg[w].present
    /\ ~reg[w].tbd
    /\ reg' = [reg EXCEPT ![w].tbd = TRUE]
    /\ UNCHANGED <<workers, services, svcOrder, waiting, routerPc, ev, out, sentLog>>
    /\ UNCHANGED lifeVars
    /\ UNCHANGED producerVars

(***************************************************************************)
(* The producer thread, read_items.                                         *)
(***************************************************************************)
\* queue_stash.get_by_status: the items in that status, in the order written
RECURSIVE get_by_status(_, _, _)
get_by_status(qs, status, i) ==
    IF i > MaxItems THEN <<>>
    ELSE (IF qs[i].status = status THEN <<i>> ELSE <<>>)
         \o get_by_status(qs, status, i + 1)

\* the for loop goes on to its next item, or ends (the PROCESSING items of
\* the chain do nothing but rebind `item`) and the thread sleeps
Advance(i, rest) ==
    IF rest = <<>>
    THEN /\ prodPc' = "sleep"
         /\ item' = IF lastProc # 0 THEN lastProc ELSE i
         /\ snap' = <<>>
         /\ lastProc' = 0
    ELSE /\ prodPc' = "loop"
         /\ item' = i
         /\ snap' = rest
         /\ lastProc' = lastProc

\* an exception propagates to the except clause of read_items
ToHandler(i) ==
    /\ prodPc' = "handler"
    /\ item' = i
    /\ snap' = <<>>
    /\ lastProc' = 0

\* sleep(1) and the two reads; r1, r2: whether the read returns Ok
ProdFetch(r1, r2) ==
    /\ prodPc = "sleep"
    /\ ~stop
    /\ LET items_to_queue == IF r1 THEN get_by_status(qstore, CREATED, 1) ELSE <<>>
           items_processing == IF r2 THEN get_by_status(qstore, PROCESSING, 1) ELSE <<>>
           lp == IF items_processing = <<>> THEN 0
                 ELSE items_processing[Len(items_processing)]
       IN IF items_to_queue = <<>>
          THEN /\ item' = IF lp # 0 THEN lp ELSE item
               /\ UNCHANGED <<prodPc, snap, lastProc>>
          ELSE /\ prodPc' = "loop"
               /\ snap' = items_to_queue
               /\ lastProc' = lp
               /\ item' = item
    /\ UNCHANGED <<qstore, objs, updErrs, appendLog, qlog>>
    /\ UNCHANGED routerVars

\* a read of the Queue Store raises
ProdFetchRaise ==
    /\ prodPc = "sleep"
    /\ ~stop
    /\ ToHandler(item)
    /\ UNCHANGED <<qstore, objs, updErrs, appendLog, qlog>>
    /\ UNCHANGED routerVars

\* read_items rewriting the arguments before the unresolved check, so that a
\* deferred item's arguments are rewritten as well
ProdItem_rewrites_first(gf1, gf2) ==
    /\ prodPc = "loop"
    /\ LET i == Head(snap)
           it == qstore[i]
           r == preprocess_all(objs, it.args \o it.kwargs, 1, gf2)
       IN /\ objs' = r.os
          /\ IF r.exc
             THEN ToHandler(i) /\ UNCHANGED <<services, appendLog>>
             ELSE IF \/ contains_unresolved_action_objects(objs, ArgsValue(it.args), gf1)
                     \/ contains_unresolved_action_objects(objs, KwargsValue(it.kwargs), gf1)
                     \/ it.pool \notin DOMAIN services
             THEN Advance(i, Tail(snap)) /\ UNCHANGED <<services, appendLog>>
             ELSE /\ services' = [services EXCEPT ![it.pool].requests =
                                     Append(@, serialize(i, it))]
                  /\ appendLog' = Append(appendLog, serialize(i, it))
                  /\ prodPc' = "update"
                  /\ item' = i
                  /\ snap' = Tail(snap)
                  /\ lastProc' = lastProc
    /\ UNCHANGED <<qstore, updErrs, qlog>>
    /\ UNCHANGED <<workers, svcOrder, waiting, reg, routerPc, ev, out, sentLog>>
    /\ UNCHANGED lifeVars

\* read_items creating the Service of an unregistered pool
\* (services.setdefault) instead of skipping the item
ProdItem_creates_service(gf1, gf2) ==
    /\ prodPc = "loop"
    /\ LET i == Head(snap)
           it == qstore[i]
       IN IF \/ contains_unresolved_action_objects(objs, ArgsValue(it.args), gf1)
             \/ contains_unresolved_action_objects(objs, KwargsValue(it.kwargs), gf1)
          THEN /\ Advance(i, Tail(snap))
               /\ UNCHANGED <<objs, services, appendLog>>
          ELSE LET r == preprocess_all(objs, it.args \o it.kwargs, 1, gf2)
                   svcs == [n \in DOMAIN services \cup {it.pool} |->
                               IF n \in DOMAIN services THEN services[n]
                               ELSE NewService]
               IN /\ objs' = r.os
                  /\ IF r.exc
                     THEN ToHandler(i) /\ UNCHANGED <<services, appendLog>>
                     ELSE /\ services' = [svcs EXCEPT ![it.pool].requests =
                                             Append(@, serialize(i, it))]
                          /\ appendLog' = Append(appendLog, serialize(i, it))
                          /\ prodPc' = "update"
                          /\ item' = i
                          /\ snap' = Tail(snap)
                          /\ lastProc' = lastProc
    /\ UNCHANGED <<qstore, updErrs, qlog>>
    /\ UNCHANGED <<workers, svcOrder, waiting, reg, routerPc, ev, out, sentLog>>
    /\ UNCHANGED lifeVars

\* one CREATED item of the loop, up to service.requests.append (lines 255-284);
\* gf1, gf2: the object ids whose get fails in contains_unresolved_action_objects and in preprocess_action_arg
ProdItem(gf1, gf2) ==
    /\ prodPc = "loop"
    /\ LET i == Head(snap)
           it == qstore[i]
       IN IF \/ contains_unresolved_action_objects(objs, ArgsValue(it.args), gf1)
             \/ contains_unresolved_action_objects(objs, KwargsValue(it.kwargs), gf1)
          THEN /\ Advance(i, Tail(snap))
               /\ UNCHANGED <<objs, services, appendLog>>
          ELSE LET r == preprocess_all(objs, it.args \o it.kwargs, 1, gf2)
               IN /\ objs' = r.os
                  /\ IF r.exc
                     THEN ToHandler(i) /\ UNCHANGED <<services, appendLog>>
                     ELSE IF it.pool \notin DOMAIN services
                     THEN Advance(i, Tail(snap)) /\ UNCHANGED <<services, appendLog>>
                     ELSE /\ services' = [services EXCEPT ![it.pool].requests =
                                             Append(@, serialize(i, it))]
                          /\ appendLog' = Append(appendLog, serialize(i, it))
                          /\ prodPc' = "update"
                          /\ item' = i
                          /\ snap' = Tail(snap)
                          /\ lastProc' = lastProc
    /\ UNCHANGED <<qstore, updErrs, qlog>>
    /\ UNCHANGED <<workers, svcOrder, waiting, reg, routerPc, ev, out, sentLog>>
    /\ UNCHANGED lifeVars

\* queue_stash.update(key, item): the stored item becomes the given one
update(qs, i, status) == [qs EXCEPT ![i].status = status]

\* item.status = Status.PROCESSING and the update (lines 285-290)
ProdUpdate(r) ==
    /\ prodPc = "update"
    /\ \/ /\ r = "ok"
          /\ qstore' = update(qstore, item, PROCESSING)
          /\ qlog' = <<item, qstore[item].status, PROCESSING>>
          /\ Advance(item, snap)
          /\ UNCHANGED updErrs
       \/ /\ r = "err"
          /\ updErrs < MaxUpdateErrs
          /\ updErrs' = updErrs + 1
          /\ Advance(item, snap)
          /\ UNCHANGED <<qstore, qlog>>
       \/ /\ r = "raise"
          /\ ToHandler(item)
          /\ UNCHANGED <<qstore, qlog, updErrs>>
    /\ UNCHANGED <<objs, appendLog>>
    /\ UNCHANGED routerVars

\* the except clause (lines 298-305); an exception raised in it ends the thread
ProdHandler(r) ==
    /\ prodPc = "handler"
    /\ IF item = 0
       THEN /\ prodPc' = "dead"        \* `item` is unbound
            /\ UNCHANGED <<qstore, qlog, updErrs>>
       ELSE \/ /\ r = "ok"
               /\ qstore' = update(qstore, item, ERRORED)
               /\ qlog' = <<item, qstore[item].status, ERRORED>>
               /\ prodPc' = "sleep"
               /\ UNCHANGED updErrs
            \/ /\ r = "err"
               /\ updErrs < MaxUpdateErrs
               /\ updErrs' = updErrs + 1
               /\ prodPc' = "sleep"
               /\ UNCHANGED <<qstore, qlog>>
            \/ /\ r = "raise"
               /\ prodPc' = "dead"
               /\ UNCHANGED <<qstore, qlog, updErrs>>
    /\ UNCHANGED <<objs, snap, lastProc, item, appendLog>>
    /\ UNCHANGED routerVars

(***************************************************************************)
(* The environment of the producer: clients, workers, the Object Store.     *)
(***************************************************************************)
Absent == [status |-> "ABSENT", pool |-> None, args |-> <<>>, kwargs |-> <<>>]

\* a client writes item i, the next one, in status CREATED
Submit(i, pool, args, kwargs) ==
    /\ i \in Items
    /\ qstore[i].status = "ABSENT"
    /\ \A j \in Items : j < i => qstore[j].status # "ABSENT"
    /\ qstore' = [qstore EXCEPT ![i] =
          [status |-> CREATED, pool |-> pool, args |-> args, kwargs |-> kwargs]]
    /\ UNCHANGED <<objs, prodPc, snap, lastProc, item, updErrs, appendLog, qlog>>
    /\ UNCHANGED routerVars

\* the action that computes an object finishes
Resolve(o) ==
    /\ ~objs[o].resolved
    /\ objs' = [objs EXCEPT ![o].resolved = TRUE]
    /\ UNCHANGED <<qstore, prodPc, snap, lastProc, item, updErrs, appendLog, qlog>>
    /\ UNCHANGED routerVars

\* the worker that was sent the item finishes it
WorkerCompletes(i) ==
    /\ \E k \in 1..Len(sentLog) : ItemOf(sentLog[k]) = i
    /\ qstore[i].status \in {CREATED, PROCESSING}
    /\ qstore' = update(qstore, i, COMPLETED)
    /\ UNCHANGED <<objs, prodPc, snap, lastProc, item, updErrs, appendLog, qlog>>
    /\ UNCHANGED routerVars

(***************************************************************************)
(* Initial state: post_init, empty stores.                                  *)
(***************************************************************************)
Prim == <<"prim">>

InitObjs ==
    [o \in ObjIds |->
        IF o = "x" THEN [resolved |-> FALSE, data |-> Prim]
        ELSE IF o = "m" THEN [resolved |-> TRUE, data |-> <<"ao", "k">>]
        ELSE IF o = "n" THEN [resolved |-> TRUE, data |-> <<"ao", "m">>]
        ELSE [resolved |-> TRUE, data |-> Prim]]

Init ==
    /\ workers = << >>
    /\ services = << >>
    /\ svcOrder = << >>
    /\ waiting = << >>
    /\ reg = [w \in Wids |-> [present |-> TRUE, tbd |-> FALSE]]
    /\ routerPc = "dispatch"
    /\ ev = <<"start">>
    /\ out = << >>
    /\ sentLog = << >>
    /\ qstore = [i \in Items |-> Absent]
    /\ objs = InitObjs
    /\ prodPc = "sleep"
    /\ snap = << >>
    /\ lastProc = 0
    /\ item = 0
    /\ updErrs = 0
    /\ appendLog = << >>
    /\ qlog = << >>
    /\ stop = FALSE
    /\ socket = "open"
    /\ closePc = "running"
    /\ gen = 0

(***************************************************************************)
(* Spec: the producer thread with every failure of its stores, next to a    *)
(* router thread that serves one worker.                                    *)
(***************************************************************************)
GetFails == {{}} \cup {{o} : o \in {"x", "p", "n", "m"}}
Results == {"ok", "err", "raise"}

Next ==
    \/ RouterDispatch({})
    \/ RouterIdle(FALSE, {})
    \/ \E msg \in WorkerFrames("a1") : RouterRecv(msg, FALSE, {})
    \/ \E i \in 1..MaxItemsFaulty, pool \in Names, arg \in {"p", "x", "n"} :
          Submit(i, pool, <<arg>>, <<>>)
    \/ \E i \in 1..MaxItemsFaulty : Submit(i, "A", <<"p">>, <<"x">>)
    \/ \E o \in ObjIds : Resolve(o)
    \/ \E i \in Items : WorkerCompletes(i)
    \/ \E r1 \in BOOLEAN, r2 \in BOOLEAN : ProdFetch(r1, r2)
    \/ ProdFetchRaise
    \/ \E gf1 \in GetFails, gf2 \in GetFails : ProdItem(gf1, gf2)
    \/ \E r \in Results : ProdUpdate(r)
    \/ \E r \in Results : ProdHandler(r)

Spec == Init /\ [][Next]_vars

(***************************************************************************)
(* SpecQueue: several items for one pool, some of them deferred, and Queue  *)
(* Store updates that may return an error.                                  *)
(***************************************************************************)
PoolAFrames(a) == {m \in WorkerFrames(a) : Len(m) < 5 \/ m[5] = "A"}

NextQueue ==
    \/ RouterDispatch({})
    \/ RouterIdle(FALSE, {})
    \/ \E msg \in PoolAFrames("a1") : RouterRecv(msg, FALSE, {})
    \/ \E i \in 1..MaxItems, arg \in {"p", "x"} : Submit(i, "A", <<arg>>, <<>>)
    \/ \E o \in ObjIds : Resolve(o)
    \/ ProdFetch(TRUE, TRUE)
    \/ ProdItem({}, {})
    \/ \E r \in {"ok", "err"} : ProdUpdate(r)

SpecQueue == Init /\ [][NextQueue]_vars

(***************************************************************************)
(* SpecRouter: the router thread with two workers of one pool, expiry and   *)
(* the registry, next to a producer thread whose stores do not fail.        *)
(***************************************************************************)
LookupFails == {{}} \cup {{w} : w \in Wids}

NextRouter ==
    \/ \E lf \in LookupFails : RouterDispatch(lf)
    \/ \E hb \in BOOLEAN, lf \in LookupFails : RouterIdle(hb, lf)
    \/ \E a \in Addrs, hb \in BOOLEAN, lf \in LookupFails :
          \E msg \in PoolAFrames(a) : RouterRecv(msg, hb, lf)
    \/ \E a \in Addrs : Expire(a)
    \/ \E w \in Wids : FlagToBeDeleted(w)
    \/ \E i \in 1..MaxItemsRouter : Submit(i, "A", <<"p">>, <<>>)
    \/ ProdFetch(TRUE, TRUE)
    \/ ProdItem({}, {})
    \/ ProdUpdate("ok")

SpecRouter == Init /\ [][NextRouter]_vars

(***************************************************************************)
(* SpecProtocol: the router thread with every kind of message, well-formed  *)
(* or not, from two addresses.                                              *)
(***************************************************************************)
NextProtocol ==
    \/ RouterDispatch({})
    \/ RouterIdle(FALSE, {})
    \/ \E a \in Addrs : \E msg \in PoolAFrames(a) \cup BadFrames(a) :
          RouterRecv(msg, FALSE, {})
    \/ \E a \in Addrs : Expire(a)
    \/ \E i \in 1..MaxItemsRouter : Submit(i, "A", <<"p">>, <<>>)
    \/ ProdFetch(TRUE, TRUE)
    \/ ProdItem({}, {})
    \/ ProdUpdate("ok")

SpecProtocol == Init /\ [][NextProtocol]_vars

(***************************************************************************)
(* SpecFifo: two workers of one pool and several admissible items, so that  *)
(* a dispatch finds several requests and several waiting workers.           *)
(***************************************************************************)
NextFifo ==
    \/ RouterDispatch({})
    \/ RouterIdle(FALSE, {})
    \/ \E a \in Addrs : \E msg \in PoolAFrames(a) : RouterRecv(msg, FALSE, {})
    \/ \E a \in Addrs : Expire(a)
    \/ \E i \in 1..MaxItemsFifo : Submit(i, "A", <<"p">>, <<>>)
    \/ ProdFetch(TRUE, TRUE)
    \/ ProdItem({}, {})
    \/ ProdUpdate("ok")

SpecFifo == Init /\ [][NextFifo]_vars

(***************************************************************************)
(* SpecLive: one worker of pool A that registers once, stays alive and      *)
(* keeps sending heartbeats; admissible items; stores that do not fail.     *)
(* Both threads are loops that run until the stop signal, so each takes its *)
(* next step; a heartbeat the worker has sent stays in the socket until a   *)
(* poll of the router receives it.                                          *)
(***************************************************************************)
LiveReady ==
    /\ "a1" \notin DOMAIN workers
    /\ RouterRecv(<<"a1", "", W_WORKER, W_READY, "A", WidOf("a1")>>, FALSE, {})

LiveHeartbeat ==
    /\ "a1" \in DOMAIN workers
    /\ RouterRecv(<<"a1", "", W_WORKER, W_HEARTBEAT>>, FALSE, {})

RouterPoll == RouterIdle(FALSE, {}) \/ LiveReady \/ LiveHeartbeat

\* the steps that are LiveHeartbeat, told by what they do to routerPc and ev
HeartbeatHandled ==
    /\ routerPc = "poll"
    /\ "a1" \in DOMAIN workers
    /\ routerPc' = "dispatch"
    /\ ev' = <<"recv", "a1", W_WORKER, W_HEARTBEAT, TRUE>>

ProducerTick == ProdFetch(TRUE, TRUE) \/ ProdItem({}, {}) \/ ProdUpdate("ok")

NextLive ==
    \/ RouterDispatch({})
    \/ RouterPoll
    \/ ProducerTick
    \/ \E i \in 1..MaxItemsLive : Submit(i, "A", <<"p">>, <<>>)
    \/ \E i \in Items : WorkerCompletes(i)

SpecLive ==
    /\ Init
    /\ [][NextLive]_vars
    /\ WF_vars(ProducerTick)
    /\ WF_vars(RouterDispatch({}))
    /\ WF_vars(RouterPoll)
    /\ SF_<<routerPc, ev>>(HeartbeatHandled)

(***************************************************************************)
(* SpecSilent: workers of pool A that register, send heartbeats for a while *)
(* and then fall silent: once a worker's expiry deadline has passed without *)
(* a frame from it, it sends none again.  The router thread keeps taking    *)
(* its steps.                                                               *)
(***************************************************************************)
SilentReady(a) ==
    /\ a \notin DOMAIN workers
    /\ reg[WidOf(a)].present
    /\ RouterRecv(<<a, "", W_WORKER, W_READY, "A", WidOf(a)>>, FALSE, {})

SilentHeartbeat(a) ==
    /\ a \in DOMAIN workers
    /\ ~workers[a].expired
    /\ RouterRecv(<<a, "", W_WORKER, W_HEARTBEAT>>, FALSE, {})

SilentPoll ==
    \/ RouterIdle(FALSE, {})
    \/ \E a \in Addrs : SilentReady(a)
    \/ \E a \in Addrs : SilentHeartbeat(a)

NextSilent ==
    \/ RouterDispatch({})
    \/ SilentPoll
    \/ \E a \in Addrs : Expire(a)
    \/ \E i \in 1..MaxItemsRouter : Submit(i, "A", <<"p">>, <<>>)
    \/ ProducerTick

SpecSilent ==
    /\ Init
    /\ [][NextSilent]_vars
    /\ WF_vars(ProducerTick)
    /\ WF_vars(RouterDispatch({}))
    /\ WF_vars(SilentPoll)

(***************************************************************************)
(* SpecSocket: a socket whose sends fail for a while (zmq.ZMQError: the     *)
(* peer is unroutable, the socket's queue is full) and work again, next to  *)
(* one worker of pool A and a producer thread whose status writes may       *)
(* return an error.                                                         *)
(***************************************************************************)
\* socket.send_multipart starts to raise zmq.ZMQError, or stops
SocketFault ==
    /\ socket \in {"open", "error"}
    /\ socket' = IF socket = "open" THEN "error" ELSE "open"
    /\ UNCHANGED <<workers, services, svcOrder, waiting, reg, routerPc, ev, out,
                   sentLog, stop, closePc, gen>>
    /\ UNCHANGED producerVars

NextSocket ==
    \/ RouterDispatch({})
    \/ \E hb \in BOOLEAN : RouterIdle(hb, {})
    \/ \E msg \in PoolAFrames("a1") : RouterRecv(msg, FALSE, {})
    \/ SocketFault
    \/ \E i \in 1..MaxItemsFifo : Submit(i, "A", <<"p">>, <<>>)
    \/ ProdFetch(TRUE, TRUE)
    \/ ProdItem({}, {})
    \/ \E r \in {"ok", "err"} : ProdUpdate(r)

SpecSocket == Init /\ [][NextSocket]_vars

(***************************************************************************)
(* Shutdown and restart.  close() runs in the thread that owns the broker;  *)
(* each of its joins returns when the joined thread has ended or after      *)
(* THREAD_TIMEOUT_SEC.  A restart is a new process: post_init and run()     *)
(* over the same stores.                                                    *)
(***************************************************************************)
RouterEnded == routerPc \in {"stopped", "dead"}
ProducerEnded == prodPc \in {"stopped", "dead"}

\* _run with the stop check removed: the loop goes on to its dispatch
RouterStop_keeps_running ==
    /\ routerPc = "dispatch"
    /\ stop
    /\ Commit(dispatch_all(Broker, 1, {}), "poll", <<"dispatch">>)

\* _run: the stop check at the top of the loop
RouterStop ==
    /\ routerPc = "dispatch"
    /\ stop
    /\ Commit(Broker, "stopped", <<"stopped">>)

\* read_items: the stop check at the top of the loop
ProdStop ==
    /\ prodPc = "sleep"
    /\ stop
    /\ prodPc' = "stopped"
    /\ UNCHANGED <<qstore, objs, snap, lastProc, item, updErrs, appendLog, qlog>>
    /\ UNCHANGED routerVars

\* close: self._stop.set()
CloseSet ==
    /\ closePc = "running"
    /\ stop' = TRUE
    /\ closePc' = "join_router"
    /\ UNCHANGED <<workers, services, svcOrder, waiting, reg, routerPc, ev, out,
                   sentLog, socket, gen>>
    /\ UNCHANGED producerVars

\* close: self.thread.join(THREAD_TIMEOUT_SEC); timeout: the join gave up
CloseJoinRouter(timeout) ==
    /\ closePc = "join_router"
    /\ RouterEnded \/ timeout
    /\ closePc' = "join_producer"
    /\ UNCHANGED <<workers, services, svcOrder, waiting, reg, routerPc, ev, out,
                   sentLog, stop, socket, gen>>
    /\ UNCHANGED producerVars

\* close: self.producer_thread.join(THREAD_TIMEOUT_SEC)
CloseJoinProducer(timeout) ==
    /\ closePc = "join_producer"
    /\ ProducerEnded \/ timeout
    /\ closePc' = "unregister"
    /\ UNCHANGED <<workers, services, svcOrder, waiting, reg, routerPc, ev, out,
                   sentLog, stop, socket, gen>>
    /\ UNCHANGED producerVars

\* close: poll_workers.unregister, which may raise (raises) and is then
\* logged, and the finally clause: socket.close(), context.destroy()
CloseFinish(raises) ==
    /\ closePc = "unregister"
    /\ raises \in BOOLEAN
    /\ socket' = "closed"
    /\ closePc' = "closed"
    /\ UNCHANGED <<workers, services, svcOrder, waiting, reg, routerPc, ev, out,
                   sentLog, stop, gen>>
    /\ UNCHANGED producerVars

\* the node starts a broker again: __init__, post_init and run(); the Queue
\* Store, the Object Store and the Worker Registry are what they were
Restart ==
    /\ closePc = "closed"
    /\ RouterEnded
    /\ ProducerEnded
    /\ gen < MaxRestarts
    /\ gen' = gen + 1
    /\ workers' = << >>
    /\ services' = << >>
    /\ svcOrder' = << >>
    /\ waiting' = << >>
    /\ routerPc' = "dispatch"
    /\ ev' = <<"start">>
    /\ out' = << >>
    /\ stop' = FALSE
    /\ socket' = "open"
    /\ closePc' = "running"
    /\ prodPc' = "sleep"
    /\ snap' = << >>
    /\ lastProc' = 0
    /\ item' = 0
    /\ UNCHANGED <<reg, sentLog, qstore, objs, updErrs, appendLog, qlog>>

(***************************************************************************)
(* SpecShutdown: one worker of pool A, admissible items, stores that do not *)
(* fail, and a broker that is closed at any time and started again.  Each   *)
(* thread takes its next step; close(), once called, runs to its end.       *)
(***************************************************************************)
RouterLoop ==
    \/ RouterDispatch({})
    \/ RouterStop
    \/ RouterIdle(FALSE, {})
    \/ \E msg \in PoolAFrames("a1") : RouterRecv(msg, FALSE, {})

ProducerLoop == ProducerTick \/ ProdStop

CloseStep ==
    \/ \E t \in BOOLEAN : CloseJoinRouter(t)
    \/ \E t \in BOOLEAN : CloseJoinProducer(t)
    \/ \E r \in BOOLEAN : CloseFinish(r)

NextShutdown ==
    \/ RouterLoop
    \/ ProducerLoop
    \/ CloseSet
    \/ CloseStep
    \/ Restart
    \/ \E i \in 1..MaxItemsRouter : Submit(i, "A", <<"p">>, <<>>)

SpecShutdown ==
    /\ Init
    /\ [][NextShutdown]_vars
    /\ WF_vars(RouterLoop)
    /\ WF_vars(ProducerLoop)
    /\ WF_vars(CloseStep)

(***************************************************************************)
(* SpecStarve: a Queue Store whose update in the except clause of           *)
(* read_items may return an error on every tick (the store rejects the      *)
(* write), next to items whose admission raises (argument n) and items that *)
(* are admissible (argument p).  Both threads take their next steps.        *)
(***************************************************************************)
\* the except clause (lines 298-305) with an update that returns Err: the
\* error is logged, nothing is written and the loop goes to its next tick
ProdHandlerErr ==
    /\ prodPc = "handler"
    /\ item # 0
    /\ prodPc' = "sleep"
    /\ UNCHANGED <<qstore, objs, snap, lastProc, item, updErrs, appendLog, qlog>>
    /\ UNCHANGED routerVars

StarveTick == ProducerTick \/ ProdHandler("ok") \/ ProdHandlerErr

NextStarve ==
    \/ RouterDispatch({})
    \/ RouterPoll
    \/ StarveTick
    \/ \E i \in 1..MaxItemsLive, arg \in {"n", "p"} : Submit(i, "A", <<arg>>, <<>>)

SpecStarve ==
    /\ Init
    /\ [][NextStarve]_vars
    /\ WF_vars(StarveTick)
    /\ WF_vars(RouterDispatch({}))
    /\ WF_vars(RouterPoll)

(***************************************************************************)
(* SpecRewrite: preprocess_action_arg as a function of the Object Store.    *)
(* The stores are drawn from the data shapes below: m holds data that may   *)
(* refer to k, n holds data that may refer to m and k.                      *)
(***************************************************************************)
AO(o) == <<"ao", o>>
ListOf(v) == <<"list", <<v>>>>

DataOfM ==
    {Prim, AO("k"), ListOf(Prim), ListOf(AO("k")),
     <<"list", <<AO("k"), Prim>>>>, <<"dict", <<<<Prim, AO("k")>>>>>>,
     <<"set", <<AO("k")>>>>, ListOf(ListOf(AO("k")))}

DataOfN ==
    {Prim, AO("m"), AO("k"), ListOf(AO("m")), ListOf(AO("k")),
     <<"list", <<AO("m"), AO("k")>>>>, ListOf(ListOf(AO("m"))),
     <<"dict", <<<<Prim, AO("m")>>>>>>, <<"dict", <<<<AO("m"), Prim>>>>>>,
     <<"set", <<AO("m")>>>>, ListOf(Prim), <<"list", <<AO("m"), Prim>>>>}

InitRewrite ==
    /\ workers = << >>
    /\ services = << >>
    /\ svcOrder = << >>
    /\ waiting = << >>
    /\ reg = [w \in Wids |-> [present |-> TRUE, tbd |-> FALSE]]
    /\ routerPc = "dispatch"
    /\ ev = <<"start">>
    /\ out = << >>
    /\ sentLog = << >>
    /\ qstore = [i \in Items |-> Absent]
    /\ \E dm \in DataOfM, dn \in DataOfN :
          objs = [InitObjs EXCEPT !["m"].data = dm, !["n"].data = dn]
    /\ prodPc = "sleep"
    /\ snap = << >>
    /\ lastProc = 0
    /\ item = 0
    /\ updErrs = 0
    /\ appendLog = << >>
    /\ qlog = << >>
    /\ stop = FALSE
    /\ socket = "open"
    /\ closePc = "running"
    /\ gen = 0

\* one call of preprocess_action_arg that returns
Rewrite(o, gf) ==
    /\ ~preprocess_action_arg(objs, o, gf).exc
    /\ objs' = preprocess_action_arg(objs, o, gf).os
    /\ UNCHANGED <<qstore, prodPc, snap, lastProc, item, updErrs, appendLog, qlog>>
    /\ UNCHANGED routerVars

NextRewrite == \E o \in {"m", "n"}, gf \in GetFails : Rewrite(o, gf)

SpecRewrite == InitRewrite /\ [][NextRewrite]_vars

(***************************************************************************)
(* SpecAdmit: the admission filter of read_items over Object Stores drawn   *)
(* from the shapes below: m holds data that refers to the unresolved x or   *)
(* the resolved k through an ActionObject, a list, a set, a dict key or a   *)
(* dict value, or a list that holds an object id; the ids in m and n may    *)
(* lead back to m.  One worker serves pool A; pool B has none.              *)
(***************************************************************************)
UidOf(o) == <<"uid", o>>

AdmitDataOfM ==
    {AO("k"), AO("x"), ListOf(AO("x")), <<"set", <<AO("x")>>>>,
     <<"dict", <<<<AO("x"), Prim>>>>>>, <<"dict", <<<<Prim, AO("x")>>>>>>,
     ListOf(UidOf("m")), ListOf(UidOf("n"))}

AdmitDataOfN == {Prim, AO("m"), ListOf(UidOf("m"))}

InitAdmit ==
    /\ workers = << >>
    /\ services = << >>
    /\ svcOrder = << >>
    /\ waiting = << >>
    /\ reg = [w \in Wids |-> [present |-> TRUE, tbd |-> FALSE]]
    /\ routerPc = "dispatch"
    /\ ev = <<"start">>
    /\ out = << >>
    /\ sentLog = << >>
    /\ qstore = [i \in Items |-> Absent]
    /\ \E dm \in AdmitDataOfM, dn \in AdmitDataOfN :
          objs = [InitObjs EXCEPT !["m"].data = dm, !["n"].data = dn]
    /\ prodPc = "sleep"
    /\ snap = << >>
    /\ lastProc = 0
    /\ item = 0
    /\ updErrs = 0
    /\ appendLog = << >>
    /\ qlog = << >>
    /\ stop = FALSE
    /\ socket = "open"
    /\ closePc = "running"
    /\ gen = 0

NextAdmit ==
    \/ RouterDispatch({})
    \/ RouterPoll
    \/ \E i \in 1..MaxItemsAdmit, pool \in Names,
          args \in {<<"m">>, <<"n">>, <<"m", "x">>} : Submit(i, pool, args, <<>>)
    \/ Resolve("x")
    \/ ProdFetch(TRUE, TRUE)
    \/ ProdItem({}, {})
    \/ ProdUpdate("ok")
    \/ ProdHandler("ok")

SpecAdmit == InitAdmit /\ [][NextAdmit]_vars

(***************************************************************************)
(* Properties.                                                              *)
(***************************************************************************)

\* C1: in every reachable state, every worker in some Service's waiting
\* list is also in the broker's global waiting list.
C1_ServiceWaitingInGlobal ==
    \A s \in DOMAIN services :
        \A k \in 1..Len(services[s].waiting) :
            InSeq(services[s].waiting[k], waiting)

\* a worker is waiting in its Service after a request has been dispatched
\* and a worker has been purged or disconnected
C1_Witness ==
    /\ \E s \in DOMAIN services : services[s].waiting # <<>>
    /\ sentLog # <<>>
    /\ \E a \in Addrs : a \notin DOMAIN workers

Rank(status) ==
    IF status = CREATED THEN 0 ELSE IF status = PROCESSING THEN 1 ELSE 2

Sends(i) == {k \in 1..Len(sentLog) : ItemOf(sentLog[k]) = i}
Appends(i) == {k \in 1..Len(appendLog) : ItemOf(appendLog[k]) = i}
FirstOf(S) == CHOOSE k \in S : \A j \in S : k <= j

RECURSIVE OfPool(_, _)
OfPool(log, pool) ==
    IF log = <<>> THEN <<>>
    ELSE (IF PoolOf(Head(log)) = pool THEN <<Head(log)>> ELSE <<>>)
         \o OfPool(Tail(log), pool)

IsPrefix(s, t) == Len(s) <= Len(t) /\ s = SubSeq(t, 1, Len(s))

\* C2: no status write of the broker replaces a stored status by an earlier
\* one of CREATED -> PROCESSING -> (ERRORED | COMPLETED).
C2_NoBackwardWrite ==
    qlog # <<>> => Rank(qlog[3]) >= Rank(qlog[2])

\* C3: the broker sends at most one W_REQUEST for an item that has not left
\* PROCESSING.
C3_AtMostOneRequest ==
    \A i \in Items :
        qstore[i].status \in {CREATED, PROCESSING} => Cardinality(Sends(i)) <= 1

\* C4 as claimed: of two items of one pool that have both been sent, the
\* one written to the Queue Store first was sent first.
C4_SentInStoreOrder ==
    \A i \in Items, j \in Items :
        (/\ i < j
         /\ qstore[i].pool = qstore[j].pool
         /\ Sends(i) # {}
         /\ Sends(j) # {})
        => FirstOf(Sends(i)) < FirstOf(Sends(j))

\* C4, amended: for every pool, the requests sent are, in order, the first of
\* the requests appended to that pool's buffer (items are sent in the order
\* in which they were appended, not in the order in which they were written).
C4_SentInAppendOrder ==
    \A pool \in Names : IsPrefix(OfPool(sentLog, pool), OfPool(appendLog, pool))

\* the item written second was deferred past, and both have been sent
C4_Witness ==
    /\ Sends(1) # {}
    /\ Sends(2) # {}
    /\ FirstOf(Sends(2)) < FirstOf(Sends(1))

\* C5: an item for which the broker has written PROCESSING has been appended
\* to exactly one request buffer, exactly once.
C5_ProcessingAppendedOnce ==
    (qlog # <<>> /\ qlog[3] = PROCESSING) => Cardinality(Appends(qlog[1])) = 1

\* the last router step purged the worker at address a for its expiry
PurgedExpired(a) ==
    /\ InSeq(<<"delete", WidOf(a)>>, out)
    /\ ~reg[WidOf(a)].tbd

\* C6: when the broker purges an idle worker whose expiry has passed (its
\* registry record present and not flagged), the worker is in neither
\* waiting list, DETACHED is written for it and W_DISCONNECT is sent to it.
C6_ExpiredWorkerDisconnected ==
    \A a \in Addrs :
        PurgedExpired(a) =>
            /\ ~InSeq(a, waiting)
            /\ \A s \in DOMAIN services : ~InSeq(a, services[s].waiting)
            /\ InSeq(<<"state", WidOf(a), DETACHED>>, out)
            /\ InSeq(<<"send", a, W_DISCONNECT, <<>>>>, out)

\* C7: after a W_READY from an address already in the Worker Table the
\* broker has sent W_DISCONNECT to it and the address is in neither the
\* Worker Table nor a waiting list; after a W_READY from an address not in
\* the table there is a Worker for it, in both waiting lists unless a
\* request went to it at once, or the purge of that step has deleted it.
C7_Reregistration ==
    \A a \in Addrs :
        /\ ev = <<"recv", a, W_WORKER, W_READY, TRUE>> =>
              /\ InSeq(<<"send", a, W_DISCONNECT, <<>>>>, out)
              /\ a \notin DOMAIN workers
              /\ ~InSeq(a, waiting)
              /\ \A s \in DOMAIN services : ~InSeq(a, services[s].waiting)
        /\ ev = <<"recv", a, W_WORKER, W_READY, FALSE>> =>
              \/ /\ a \in DOMAIN workers
                 /\ workers[a].service \in DOMAIN services
                 /\ workers[a].wid = WidOf(a)
                 /\ \/ /\ InSeq(a, waiting)
                       /\ InSeq(a, services[workers[a].service].waiting)
                    \/ \E k \in 1..Len(out) :
                          out[k][1] = "send" /\ out[k][2] = a /\ out[k][3] = W_REQUEST
              \/ /\ InSeq(<<"delete", WidOf(a)>>, out)
                 /\ a \notin DOMAIN workers

\* a worker that was waiting has sent W_READY again
C7_Witness ==
    \E a \in Addrs :
        /\ ev = <<"recv", a, W_WORKER, W_READY, TRUE>>
        /\ InSeq(<<"send", a, W_DISCONNECT, <<>>>>, out)
        /\ \E b \in Addrs : b # a /\ InSeq(b, waiting)

\* an argument or keyword argument of item i is an unresolved ActionObject
HasUnresolvedRef(i) ==
    \/ \E k \in 1..Len(qstore[i].args) : ~objs[qstore[i].args[k]].resolved
    \/ \E k \in 1..Len(qstore[i].kwargs) : ~objs[qstore[i].kwargs[k]].resolved

\* C8: the producer loop does not append an item (and so does not go on to
\* write PROCESSING for it) while one of its arguments is unresolved.
C8_UnresolvedIsDeferred ==
    prodPc = "update" => ~HasUnresolvedRef(item)

\* C9: once the producer loop has appended an item and is done with it, the
\* item's stored status is no longer CREATED.
C9_AppendedIsProcessing ==
    \A i \in Items :
        (Appends(i) # {} /\ ~(prodPc \in {"update", "handler"} /\ item = i))
        => qstore[i].status # CREATED

\* C10: an item whose argument is the doubly nested object n is never
\* appended to a request buffer, never sent, and never gets a status other
\* than CREATED and ERRORED.
C10_DoubleNestingErrored ==
    \A i \in Items :
        qstore[i].args = <<"n">> =>
            /\ Appends(i) = {}
            /\ Sends(i) = {}
            /\ qstore[i].status \in {CREATED, ERRORED}

Occurrences(x, seq) == Cardinality({k \in 1..Len(seq) : seq[k] = x})

\* C15: every address is at most once in the global waiting list, is in
\* the waiting list of no Service but its Worker's own, at most once, and is
\* in the global list exactly if it is in its Service's list.
C15_WaitingListsAgree ==
    \A a \in Addrs :
        /\ Occurrences(a, waiting) <= 1
        /\ \A s \in DOMAIN services :
              /\ Occurrences(a, services[s].waiting) <= 1
              /\ InSeq(a, services[s].waiting) =>
                    a \in DOMAIN workers /\ workers[a].service = s
        /\ InSeq(a, waiting) <=>
              \E s \in DOMAIN services : InSeq(a, services[s].waiting)

\* C16: the router thread does not end on a received message.
C16_RouterSurvives ==
    routerPc # "dead"

\* C17: the producer thread does not end on a failure of a Queue Store call.
C17_ProducerSurvives ==
    prodPc # "dead"

\* a step of the router thread
RouterStep == routerPc' # routerPc

\* the positions in o of the W_REQUEST frames sent to address a
RequestsTo(a, o) ==
    {k \in 1..Len(o) : o[k][1] = "send" /\ o[k][2] = a /\ o[k][3] = W_REQUEST}

\* the router step handles a W_READY or W_HEARTBEAT frame from address a
BackFrom(a) ==
    /\ ev'[1] = "recv"
    /\ ev'[2] = a
    /\ ev'[3] = W_WORKER
    /\ ev'[4] \in {W_READY, W_HEARTBEAT}

\* a router step sends an address at most one W_REQUEST, only if the address
\* was waiting or the step handles a READY or HEARTBEAT from it, and the
\* address is not waiting afterwards; an address enters the waiting list
\* only in a step that handles a READY or HEARTBEAT from it
OneRequestAtATime ==
    \A a \in Addrs :
        /\ Cardinality(RequestsTo(a, out')) <= 1
        /\ RequestsTo(a, out') # {} =>
              /\ InSeq(a, waiting) \/ BackFrom(a)
              /\ ~InSeq(a, waiting')
        /\ (~InSeq(a, waiting) /\ InSeq(a, waiting')) => BackFrom(a)

C13_PayloadIsAdmittedBytes ==
    /\ \A k \in 1..Len(sentLog) :
          /\ sentLog[k] = serialize(ItemOf(sentLog[k]), qstore[ItemOf(sentLog[k])])
          /\ InSeq(sentLog[k], appendLog)
    /\ \A k \in 1..Len(out) :
          (out[k][1] = "send" /\ out[k][3] = W_REQUEST) =>
              Len(out[k][4]) = 1 /\ InSeq(out[k][4][1], appendLog)

\* an item whose argument is a resolved object without nesting has been sent
C13_Witness ==
    \E k \in 1..Len(sentLog) :
        /\ sentLog[k][4] = <<"p">>
        /\ sentLog[k][5] = <<>>
        /\ qstore[ItemOf(sentLog[k])].status = PROCESSING

\* the W_REQUEST frames of o, in order
RECURSIVE RequestSends(_)
RequestSends(o) ==
    IF o = <<>> THEN <<>>
    ELSE (IF Head(o)[1] = "send" /\ Head(o)[3] = W_REQUEST
          THEN <<Head(o)>> ELSE <<>>) \o RequestSends(Tail(o))

RECURSIVE KeepIn(_, _)
KeepIn(seq, S) ==
    IF seq = <<>> THEN <<>>
    ELSE (IF Head(seq) \in S THEN <<Head(seq)>> ELSE <<>>) \o KeepIn(Tail(seq), S)

\* what a router step does with the two queues of Service s
FifoStep(s) ==
    LET all == RequestSends(out')
        rs == SelectSeq(all, LAMBDA e : PoolOf(e[4][1]) = s)
        n == Len(rs)
        pre == IF s \in DOMAIN services THEN services[s] ELSE NewService
        arrives == BackFrom(ev'[2]) /\ ~InSeq(ev'[2], pre.waiting)
        line == pre.waiting \o (IF ev'[1] = "recv" /\ arrives THEN <<ev'[2]>> ELSE <<>>)
        alive == {a \in DOMAIN workers' : workers'[a].service = s}
        served == KeepIn(line, alive)
    IN /\ n <= Len(pre.requests)
       /\ n <= Len(served)
       /\ \A k \in 1..n :
             /\ rs[k][4] = <<pre.requests[k]>>
             /\ rs[k][2] = served[k]
       /\ s \in DOMAIN services' =>
             services'[s].requests = SubSeq(pre.requests, n + 1, Len(pre.requests))

\* C20: in every router step the requests sent are the first of the
\* Service's request buffer, in order, each removed from the buffer, and the
\* k-th of them goes to the k-th worker of the Service's waiting list.
C20_DispatchFifo ==
    [][RouterStep => FifoStep("A")]_vars

\* one dispatch has sent two requests to two workers
C20_Witness ==
    /\ Len(RequestSends(out)) = 2
    /\ RequestSends(out)[1][2] # RequestSends(out)[2][2]

\* the one W_REQUEST sent for item i carries its serialization
SentOnce(i) ==
    /\ Cardinality(Sends(i)) = 1
    /\ \A k \in Sends(i) : sentLog[k] = serialize(i, qstore[i])

\* C11: once an item for pool A is CREATED with its arguments resolved while
\* the worker is registered, a state follows in which its stored status is
\* PROCESSING and the worker has been sent exactly one W_REQUEST, carrying
\* the item's serialization.
C11_HappyPath ==
    \A i \in 1..MaxItemsLive :
        (qstore[i].status = CREATED /\ ~HasUnresolvedRef(i) /\ "a1" \in DOMAIN workers)
        ~> (qstore[i].status = PROCESSING /\ SentOnce(i))

\* the item has been sent to the worker and is stored as PROCESSING
C11_Witness ==
    /\ "a1" \in DOMAIN workers
    /\ qstore[1].status = PROCESSING
    /\ SentOnce(1)
    /\ prodPc = "sleep"

\* C14: if a step is a successful rewrite of object o, a second rewrite of o
\* leaves the Object Store as the first one left it.
C14_RewriteIdempotent ==
    [][\A o \in ObjIds :
          (/\ ~preprocess_action_arg(objs, o, {}).exc
           /\ objs' = preprocess_action_arg(objs, o, {}).os)
          => preprocess_action_arg(objs', o, {}).os = objs']_vars

\* the argument and keyword-argument object ids of item i
RefsOf(i) ==
    {qstore[i].args[k] : k \in 1..Len(qstore[i].args)}
    \cup {qstore[i].kwargs[k] : k \in 1..Len(qstore[i].kwargs)}

\* C21: a producer step on an item one of whose argument ids cannot be
\* fetched from the Object Store in the unresolved check defers the item:
\* nothing is appended to a request buffer, no status is written and the
\* item stays CREATED.
C21_FailedFetchIsDeferred ==
    [][\A gf1 \in GetFails, gf2 \in GetFails :
          (/\ ProdItem(gf1, gf2)
           /\ RefsOf(Head(snap)) \cap gf1 # {})
          => /\ appendLog' = appendLog
             /\ prodPc' \notin {"update", "handler"}
             /\ qstore'[Head(snap)].status = CREATED]_vars


\* a step of the producer loop on the item at the head of its snapshot, from
\* which no exception propagates
ItemStep == prodPc = "loop" /\ snap' # snap /\ prodPc' # "handler"

\* C22: a producer step on an item whose pool has no Service appends nothing
\* to any request buffer, creates no Service and writes nothing to the Queue
\* Store; the item is still CREATED, so the read of the next tick returns it.
C22_UnregisteredPoolSkipped ==
    [][(ItemStep /\ qstore[Head(snap)].pool \notin DOMAIN services)
         => /\ services' = services
            /\ appendLog' = appendLog
            /\ qstore' = qstore
            /\ prodPc' # "update"
            /\ qstore'[Head(snap)].status = CREATED
            /\ InSeq(Head(snap), get_by_status(qstore', CREATED, 1))]_vars

\* an admissible item was skipped while no worker had registered, and is
\* appended on a later tick
C22_Witness ==
    /\ qstore[1].args = <<"p">>
    /\ qstore[2].args = <<"p">>
    /\ Appends(2) # {}
    /\ Appends(1) # {}
    /\ FirstOf(Appends(2)) < FirstOf(Appends(1))


\* C23: the except clause of read_items marks the item bound to `item`, and
\* it is entered with an item bound only by an exception raised while that
\* item was being processed: in the loop body, where the item is the head of
\* the snapshot, or in the status update that follows the append.
C23_ErroredIsOffender ==
    [][/\ (prodPc = "handler" /\ qlog' # qlog)
             => (qlog'[1] = item /\ qlog'[3] = ERRORED)
       /\ (prodPc # "handler" /\ prodPc' = "handler" /\ item' # 0)
             => /\ prodPc \in {"loop", "update"}
                /\ item' = (IF prodPc = "loop" THEN Head(snap) ELSE item)]_vars


\* the router step handles a frame that breaks the protocol: its header is
\* not the worker header, or its command is unknown and its address is not
\* in the Worker Table
ViolatingFrame ==
    /\ ev'[1] = "recv"
    /\ \/ ev'[3] # W_WORKER
       \/ /\ ev'[4] \notin {W_READY, W_HEARTBEAT, W_DISCONNECT}
          /\ ~ev'[5]

\* C24: a router step that receives a protocol-violating frame leaves the
\* Worker Table, the Service Table and both waiting lists as the same loop
\* iteration leaves them when no frame arrives (the purge that ends the
\* iteration), and sends nothing more than that purge does.
C24_ViolationChangesNothing ==
    [][(RouterStep /\ ViolatingFrame)
         => LET idle == purge_workers(Broker, {})
            IN /\ workers' = idle.workers
               /\ services' = idle.services
               /\ waiting' = idle.waiting
               /\ out' = idle.out]_vars


\* C25: after a router step that handles a W_HEARTBEAT from an address in
\* the Worker Table, the worker's expiry is reset and it is in the global and
\* in a Service's waiting list, unless a request was sent to it in that step;
\* after one that handles a W_HEARTBEAT from an address not in the table,
\* the table has no entry for the address and the waiting lists are as the
\* iteration's purge alone leaves them.
C25_HeartbeatHandling ==
    [][\A a \in Addrs :
          /\ (RouterStep /\ ev' = <<"recv", a, W_WORKER, W_HEARTBEAT, TRUE>>)
                => /\ a \in DOMAIN workers'
                   /\ ~workers'[a].expired
                   /\ \/ /\ InSeq(a, waiting')
                         /\ \E s \in DOMAIN services' : InSeq(a, services'[s].waiting)
                      \/ RequestsTo(a, out') # {}
          /\ (RouterStep /\ ev' = <<"recv", a, W_WORKER, W_HEARTBEAT, FALSE>>)
                => /\ a \notin DOMAIN workers'
                   /\ \E lf \in LookupFails :
                         /\ waiting' = purge_workers(Broker, lf).waiting
                         /\ services' = purge_workers(Broker, lf).services]_vars


\* the router step is process_worker's first registration of address a
\* with W_READY(n, WidOf(a)), under any heartbeat timer and registry faults
FirstReady(a, n, hb, lf) ==
    /\ a \notin DOMAIN workers
    /\ ev' = <<"recv", a, W_WORKER, W_READY, FALSE>>
    /\ RouterRecv(<<a, "", W_WORKER, W_READY, n, WidOf(a)>>, hb, lf)

\* the tables and lists after the first registration of a for Service n:
\* the Service exists, and the Worker is attached to it and waiting, or has
\* been sent a pending request at once, or was deleted by the step's purge
Registered(a, n) ==
    /\ DOMAIN services' = DOMAIN services \cup {n}
    /\ \/ /\ a \in DOMAIN workers'
          /\ workers'[a].service = n
          /\ workers'[a].wid = WidOf(a)
          /\ \/ InSeq(a, waiting') /\ InSeq(a, services'[n].waiting)
             \/ RequestsTo(a, out') # {}
       \/ /\ a \notin DOMAIN workers'
          /\ reg[WidOf(a)].tbd
          /\ InSeq(<<"delete", WidOf(a)>>, out')

\* the router step handles a W_READY frame from an address not in the table
ReadyStep ==
    /\ routerPc = "poll"
    /\ routerPc' # "poll"
    /\ ev'[1] = "recv"
    /\ ev'[4] = W_READY
    /\ ~ev'[5]

\* a Service appears only in a step that handles a first W_READY
OnlyReadyCreates ==
    DOMAIN services' # DOMAIN services
        => \E a \in Addrs : ev' = <<"recv", a, W_WORKER, W_READY, FALSE>>

\* C26 as claimed: the first W_READY of an address creates the Service,
\* attaches and queues the Worker and writes consumer state IDLE for it, and
\* nothing else creates a Service.
C26_FirstRegistrationWritesIdle ==
    [][/\ ReadyStep =>
             \A a \in Addrs, n \in Names, hb \in BOOLEAN, lf \in LookupFails :
             FirstReady(a, n, hb, lf)
                => /\ Registered(a, n)
                   /\ InSeq(<<"state", WidOf(a), IDLE>>, out')
       /\ OnlyReadyCreates]_vars

\* C26, amended: the same, with IDLE written when the Worker Registry holds a
\* record for worker_id and its calls succeed in that step.
C26_FirstRegistration ==
    [][/\ ReadyStep =>
             \A a \in Addrs, n \in Names, hb \in BOOLEAN, lf \in LookupFails :
             FirstReady(a, n, hb, lf)
                => /\ Registered(a, n)
                   /\ (reg[WidOf(a)].present /\ WidOf(a) \notin lf)
                         => InSeq(<<"state", WidOf(a), IDLE>>, out')
       /\ OnlyReadyCreates]_vars

\* a second worker has registered for an existing Service, with IDLE written,
\* after the first had been sent a request
C26_Witness ==
    /\ ev = <<"recv", "a2", W_WORKER, W_READY, FALSE>>
    /\ InSeq(<<"state", "w2", IDLE>>, out)
    /\ InSeq("a2", waiting)
    /\ InSeq("a2", services["A"].waiting)
    /\ workers["a2"].service = "A"
    /\ sentLog # <<>>


\* the router step is a loop iteration that went through poll and ended with
\* purge_workers (line 483)
PurgePass == routerPc = "poll" /\ routerPc' = "dispatch" /\ ev'[1] \in {"idle", "recv"}

\* C27: after the purge pass that ends a router iteration, the global
\* waiting list holds no worker whose registry record is found and whose
\* expiry has passed or whose record is flagged to_be_deleted.
C27_PurgeExaminesAll ==
    [][PurgePass
         => \A k \in 1..Len(waiting') :
               LET w == workers'[waiting'[k]]
               IN ~(/\ w.wid # None
                    /\ reg'[w.wid].present
                    /\ (w.expired \/ reg'[w.wid].tbd))]_vars


\* C28: a worker in the Worker Table whose expiry deadline has passed, idle
\* or holding a request, and from which no frame arrives any more, is
\* eventually removed from the Worker Table.
C28_SilentWorkerRemoved ==
    \A a \in Addrs :
        (a \in DOMAIN workers /\ workers[a].expired) ~> (a \notin DOMAIN workers)


\* value v holds an ActionObject: itself, or inside a list, a set, a mapping
\* value or a mapping key, at any depth
RECURSIVE HasActionObject(_)
HasActionObject(v) ==
    IF v[1] = "ao" THEN TRUE
    ELSE IF v[1] \in {"list", "set"}
    THEN \E k \in 1..Len(v[2]) : HasActionObject(v[2][k])
    ELSE IF v[1] = "dict"
    THEN \E k \in 1..Len(v[2]) :
            HasActionObject(v[2][k][1]) \/ HasActionObject(v[2][k][2])
    ELSE FALSE

\* v with every ActionObject leaf replaced by the data stored for it
RECURSIVE LeavesReplaced(_, _)
LeavesReplaced(os, v) ==
    IF v[1] = "ao" THEN os[v[2]].data
    ELSE IF v[1] \in {"list", "set"}
    THEN <<v[1], [k \in 1..Len(v[2]) |-> LeavesReplaced(os, v[2][k])]>>
    ELSE IF v[1] = "dict"
    THEN <<"dict", [k \in 1..Len(v[2]) |->
                      <<LeavesReplaced(os, v[2][k][1]),
                        LeavesReplaced(os, v[2][k][2])>>]>>
    ELSE v

\* C29: when every get succeeds and the rewrite of an object whose data
\* holds ActionObjects returns, the object stored under the same id has each
\* ActionObject leaf replaced by that ActionObject's data, and holds no
\* ActionObject.
C29_RewriteReplacesEveryLeaf ==
    \A o \in {"m", "n"} :
        LET r == preprocess_action_arg(objs, o, {})
        IN (~r.exc /\ HasActionObject(objs[o].data))
              => /\ r.os[o].data = LeavesReplaced(objs, objs[o].data)
                 /\ ~HasActionObject(r.os[o].data)


\* the ids of the ActionObjects unwrap_nested_actionobjects fetches for data
RECURSIVE FetchedIn(_)
FetchedIn(v) ==
    IF v[1] = "ao" THEN {v[2]}
    ELSE IF v[1] = "list" THEN UNION {FetchedIn(v[2][k]) : k \in 1..Len(v[2])}
    ELSE IF v[1] = "dict" THEN UNION {FetchedIn(v[2][k][2]) : k \in 1..Len(v[2])}
    ELSE {}

\* the ids preprocess_action_arg(o) asks the Object Store for
RewriteGets(os, o) ==
    {o} \cup (IF contains_nested_actionobjects(os[o].data)
              THEN FetchedIn(os[o].data) ELSE {})

\* C30: if one of the gets of the rewrite of argument o fails, the Object
\* Store is left as it was.
C30_FailedGetLeavesObject ==
    \A o \in {"m", "n"}, gf \in GetFails :
        (gf \cap RewriteGets(objs, o) # {})
            => preprocess_action_arg(objs, o, gf).os = objs

\* C39: under every interleaving of the two threads, when the broker sends
\* the W_REQUEST of an item, the Queue Store already shows that item as
\* PROCESSING.
C39_SentIsProcessing ==
    [][\A k \in (Len(sentLog) + 1)..Len(sentLog') :
          qstore[ItemOf(sentLog'[k])].status = PROCESSING]_vars

InBuffer(i) ==
    \E s \in DOMAIN services :
        \E k \in 1..Len(services[s].requests) : ItemOf(services[s].requests[k]) = i

\* C36: once the broker has marked an item ERRORED, the item's bytes are in
\* no request buffer and no W_REQUEST is sent for it, whichever statement
\* raised the exception (the Queue Store update after the append included).
C36_ErroredNeverSent ==
    [][\A i \in Items :
          qstore'[i].status = ERRORED =>
             /\ ~InBuffer(i)'
             /\ (qstore[i].status = ERRORED => Sends(i)' = Sends(i))]_vars

\* the router step is one loop step of _run in which the registry calls for
\* the ids in lf fail
RouterStepWith(lf) ==
    \/ ev'[1] = "dispatch" /\ RouterDispatch(lf)
    \/ ev'[1] = "idle" /\ \E hb \in BOOLEAN : RouterIdle(hb, lf)
    \/ /\ ev'[1] = "recv"
       /\ \E hb \in BOOLEAN :
             \E msg \in {m \in PoolAFrames(ev'[2]) : m[4] = ev'[4]} :
                RouterRecv(msg, hb, lf)

\* the router step calls worker_waiting for address a: a first W_READY or a
\* W_HEARTBEAT of a known worker
MarkedWaiting(a) ==
    /\ BackFrom(a)
    /\ ev'[5] = (ev'[4] = W_HEARTBEAT)

\* IDLE is written for every worker marked waiting and DETACHED for every
\* worker deleted, when the registry holds the worker's record and its calls
\* succeed in that step; the router thread goes on
IdleAndDetachedWritten(lf) ==
    /\ \A a \in Addrs :
          (MarkedWaiting(a) /\ reg[WidOf(a)].present /\ WidOf(a) \notin lf)
             => InSeq(<<"state", WidOf(a), IDLE>>, out')
    /\ \A a \in DOMAIN workers \ DOMAIN workers' :
          LET wid == workers[a].wid
          IN (wid # None /\ wid \notin lf /\ reg[wid].present)
                => InSeq(<<"state", wid, DETACHED>>, out')
    /\ routerPc' # "dead"

\* C35 as claimed: the broker writes the consumer state on every transition
\* of a Worker that has a registry record, IDLE when it is marked waiting,
\* CONSUMING when a request is dispatched to it, DETACHED when it is deleted,
\* and a failing registry call never stops the router loop.
C35_StateWrittenOnEveryTransition ==
    [][RouterStep =>
          \A lf \in LookupFails :
             \/ /\ IdleAndDetachedWritten(lf)
                /\ \A a \in Addrs :
                      (/\ RequestsTo(a, out') # {}
                       /\ reg[WidOf(a)].present
                       /\ WidOf(a) \notin lf)
                         => InSeq(<<"state", WidOf(a), "CONSUMING">>, out')
             \/ ~RouterStepWith(lf)]_vars

\* C35, amended: the broker writes IDLE and DETACHED, when the registry holds
\* the record and its calls succeed in that step, and no other state: a
\* dispatch writes nothing to the registry.
C35_IdleAndDetachedOnly ==
    [][RouterStep =>
          \A lf \in LookupFails :
             \/ /\ IdleAndDetachedWritten(lf)
                /\ \A k \in 1..Len(out') :
                      out'[k][1] = "state" => out'[k][3] \in {IDLE, DETACHED}
             \/ ~RouterStepWith(lf)]_vars

\* after a request was dispatched, a worker has been deleted with DETACHED
\* written, in a step that also sent a frame to the other worker
C35_Witness ==
    /\ sentLog # <<>>
    /\ \E a \in Addrs :
          /\ a \notin DOMAIN workers
          /\ InSeq(<<"state", WidOf(a), DETACHED>>, out)
          /\ \E k \in 1..Len(out) : out[k][1] = "send" /\ out[k][2] # a

\* the positions in o of the W_REQUEST frames whose send raised ZMQError
FailedRequests(o) ==
    {k \in 1..Len(o) : o[k][1] = "senderr" /\ o[k][3] = W_REQUEST}

\* the positions in o of the W_REQUEST frames of pool s, sent or failed
PoppedFor(s, o) ==
    {k \in 1..Len(o) : o[k][3] = W_REQUEST /\ PoolOf(o[k][4][1]) = s}

\* item i was appended and popped, and no W_REQUEST was sent for it
Dropped(i) == Appends(i) # {} /\ ~InBuffer(i) /\ Sends(i) = {}

\* C33: when the send of a W_REQUEST raises ZMQError the router loop goes on,
\* the chosen worker is in neither waiting list and the Queue Store is not
\* written; the router puts no request back (each buffer loses exactly the
\* requests the step popped) and sends no request but the ones it pops, so
\* the failed one is not sent again; a status that is PROCESSING stays so.
C33_FailedSendDropsRequest ==
    [][/\ RouterStep =>
             /\ \A k \in FailedRequests(out') :
                   LET a == out'[k][2]
                       msg == out'[k][4][1]
                   IN /\ routerPc' # "dead"
                      /\ ~InSeq(a, waiting')
                      /\ ~InSeq(a, services'[PoolOf(msg)].waiting)
                      /\ qstore' = qstore
             /\ \A n \in DOMAIN services :
                   LET reqs == services[n].requests
                       popped == Cardinality(PoppedFor(n, out'))
                   IN services'[n].requests = SubSeq(reqs, popped + 1, Len(reqs))
             /\ Len(sentLog') - Len(sentLog)
                   = Cardinality(UNION {RequestsTo(a, out') : a \in Addrs})
       /\ \A i \in Items :
             qstore[i].status = PROCESSING => qstore'[i].status = PROCESSING]_vars

\* the send of item 1 failed and the item is PROCESSING; the router went on
\* and has sent item 2 to the worker after its next heartbeat
C33_Witness ==
    /\ Dropped(1)
    /\ qstore[1].status = PROCESSING
    /\ Sends(2) # {}

\* close() sets the stop flag before it joins, and closes the socket as its
\* last step and not before
ShutdownOrder ==
    /\ closePc # "running" => stop
    /\ socket = "closed" <=> closePc = "closed"

\* close() goes through its statements in order, and a thread that finds
\* the stop flag set at the top of its loop ends there
ShutdownSteps ==
    /\ closePc' # closePc =>
          <<closePc, closePc'>> \in
             {<<"running", "join_router">>, <<"join_router", "join_producer">>,
              <<"join_producer", "unregister">>, <<"unregister", "closed">>,
              <<"closed", "running">>}
    /\ (stop /\ routerPc = "dispatch" /\ routerPc' # routerPc) => routerPc' = "stopped"
    /\ (stop /\ prodPc = "sleep" /\ prodPc' # prodPc) => prodPc' = "stopped"

\* C32: close() sets the stop flag, joins the router thread and then the
\* producer thread, and closes the socket last, on every path; a close()
\* that has begun ends with the socket closed; once the stop flag is set
\* both threads end, the router at the top of its next loop iteration and
\* the producer at the top of its next tick.
C32_Shutdown ==
    /\ []ShutdownOrder
    /\ [][ShutdownSteps]_vars
    /\ (closePc # "running") ~> (socket = "closed")
    /\ stop ~> (RouterEnded /\ ProducerEnded)

\* the broker was closed after it had dispatched a request: both threads
\* have stopped and the socket is closed
C32_Witness ==
    /\ closePc = "closed"
    /\ socket = "closed"
    /\ routerPc = "stopped"
    /\ prodPc = "stopped"
    /\ sentLog # <<>>

\* C34: an item that was appended to a Service buffer but not sent when the
\* broker was closed is still PROCESSING in the Queue Store, and after the
\* restart the producer loop picks it up again so that it is sent: once its
\* pool is registered with the new broker, the item is eventually in the
\* pool's buffer or sent (unless the broker is closed again).
C34_ProcessingResentAfterRestart ==
    \A i \in Items :
        (/\ gen > 0
         /\ ~stop
         /\ qstore[i].status = PROCESSING
         /\ Sends(i) = {}
         /\ ~InBuffer(i)
         /\ qstore[i].pool \in DOMAIN services)
            ~> (InBuffer(i) \/ Sends(i) # {} \/ stop)

\* C38: an item whose admission raises on every tick, and that the Queue
\* Store keeps returning as CREATED, does not starve the others: every
\* CREATED item with a resolved, unnested argument whose pool is registered
\* is eventually enqueued and set to PROCESSING.
C38_RaisingItemDoesNotStarve ==
    \A i \in Items :
        (/\ qstore[i].status = CREATED
         /\ qstore[i].args = <<"p">>
         /\ qstore[i].pool \in DOMAIN services)
            ~> (Appends(i) # {} /\ qstore[i].status = PROCESSING)

RECURSIVE RefsIn(_)
RefsIn(v) ==
    IF v[1] \in {"uid", "ao"} THEN {v[2]}
    ELSE IF v[1] \in {"list", "set"}
    THEN UNION {RefsIn(v[2][k]) : k \in 1..Len(v[2])}
    ELSE IF v[1] = "dict"
    THEN UNION {RefsIn(v[2][k][1]) \cup RefsIn(v[2][k][2]) : k \in 1..Len(v[2])}
    ELSE {}

\* the objects reachable from the ids in S through the data of objects
RECURSIVE ReachableFrom(_, _)
ReachableFrom(os, S) ==
    LET T == S \cup UNION {RefsIn(os[o].data) : o \in S}
    IN IF T = S THEN S ELSE ReachableFrom(os, T)

\* C37: the producer appends an item only if every ActionObject reachable
\* from its args and kwargs, through object ids, collections of any kind and
\* ActionObjects whose data is an ActionObject, is resolved.
C37_AdmittedOnlyIfAllResolved ==
    [][\A i \in Items :
          Appends(i)' # Appends(i)
             => \A o \in ReachableFrom(objs, RefsOf(i)) : objs[o].resolved]_vars

\* the producer step leaves the item it examines CREATED: deferred or
\* skipped, nothing appended, no exception
LeftCreated == ItemStep /\ appendLog' = appendLog

\* C40 as claimed: a producer step that leaves its item CREATED, deferred or
\* skipped for an unregistered pool, writes nothing to the Object Store.
C40_NoRewriteUnlessEnqueued ==
    [][LeftCreated => objs' = objs]_vars

\* C40, amended: a step that defers its item writes nothing to the Object
\* Store; a step that leaves it CREATED with the Object Store changed is the
\* skip of an item of an unregistered pool that passed the unresolved check,
\* and the change is the admission rewrite of its arguments.
C40_NoRewriteWhenDeferred ==
    [][LeftCreated =>
          LET it == qstore[Head(snap)]
              ids == it.args \o it.kwargs
          IN /\ (\E k \in 1..Len(ids) : ~objs[ids[k]].resolved) => objs' = objs
             /\ objs' # objs =>
                   /\ it.pool \notin DOMAIN services
                   /\ \A k \in 1..Len(ids) : objs[ids[k]].resolved
                   /\ objs' = preprocess_all(objs, ids, 1, {}).os]_vars

\* item 1 of the unregistered pool B was skipped and is still CREATED, and
\* its argument m, which held an ActionObject, has been rewritten
C40_Witness ==
    /\ qstore[1].status = CREATED
    /\ qstore[1].pool = "B"
    /\ qstore[1].args = <<"m">>
    /\ Appends(1) = {}
    /\ prodPc = "sleep"
    /\ item = 1
    /\ objs["m"].data = Prim

====
